---- MODULE Spec2Model ----
(***************************************************************************)
(* Model of the spatial-audio engine of meet-in-space:                     *)
(*   react/features/base/media/components/web/AudioTrack.js                *)
(*   react/features/video-layout/actions.js (toggleSpatialAudio)           *)
(*                                                                         *)
(* One AudioTrack component instance exists per remote participant with an *)
(* audio track (filmstrip/components/web/Thumbnail.js renders it inside a  *)
(* <div class="audio-track">).  The browser runs every lifecycle callback  *)
(* to completion on the single main thread, so each callback is one        *)
(* action; the Web Audio calls a callback makes are recorded, in order,    *)
(* in last.steps, together with the connection set each call leaves.       *)
(***************************************************************************)
EXTENDS Integers, Sequences, FiniteSets

\* Largest number of AudioTrack components the model mounts.
MaxTracks == 3

\* Component instances; each owns an <audio> element with a distinct id.
Participants == 1..MaxTracks

\* Largest number of components mounted when the props (volume, muted) and
\* the browser's panner API vary as well.
MaxPropTracks == 2

PropParticipants == 1..MaxPropTracks

\* Largest participant count N for which calcLocation is tabulated and
\* exercised on its own.
MaxCount == 5

\* JavaScript's undefined, for a numeric prop (volume is in tenths).
Undefined == -1

\* Values of the volume prop: absent, or 0.5 (in tenths).
VolumeProps == {Undefined, 5}

\* Values of the muted prop: absent, or a boolean.
MutedProps == {"undefined", "false", "true"}

\* GainNode.gain.value of a freshly created gain node: 1.0, in tenths.
DefaultGain == 10

\* HTMLMediaElement.volume of a freshly created <audio> element: 1.0, in
\* tenths.
DefaultVolume == 10

VARIABLES
    contexts,      \* number of AudioContext instances created (window.context)
    spatialAudio,  \* window.spatialAudio: "undefined", "false" or "true"
    audioTracks,   \* window.audioTracks: the live collection of div.audio-track
    graph,         \* per component: its nodes' connections and its fields
    positionParams,\* TRUE iff PannerNode has the positionX/positionY AudioParams
    startSilent,   \* the muted prop Thumbnail passes (its _startSilent)
    webAudio,      \* TRUE iff window.AudioContext or window.webkitAudioContext exists
    streamActive,  \* stream.active of the stream captured from the <audio> element
    last           \* the callback that ran last, its props and its Web Audio calls,
                   \* and the gain and muted flag its component had before it

vars ==
    <<contexts, spatialAudio, audioTracks, graph, positionParams, startSilent,
      webAudio, streamActive, last>>

\* JavaScript truthiness of the tri-state flag.
Truthy(v) == v = "true"

\* A component that was never mounted: no nodes, no fields.  source is the
\* kind of this._source ("stream" or "element"), refVolume and muted are the
\* volume and muted attributes of the <audio> element.
NoGraph ==
    [status |-> "none", conns |-> {}, spatial |-> "undefined",
     idx |-> 0, len |-> 0, px |-> 0, py |-> 0,
     gain |-> DefaultGain, muted |-> FALSE,
     source |-> "none", refVolume |-> DefaultVolume]

\* The gain value and the muted flag a component has when a callback starts.
Was(g) == [gain |-> g.gain, muted |-> g.muted]

\* ---- Web Audio primitives ----

\* AudioNode.connect(destination): adds the edge (a set: no duplicates).
Connect(c, from, to) == c \cup {<<from, to>>}

\* AudioNode.disconnect() without arguments: drops every outgoing edge.
Disconnect(c, from) == {e \in c : e[1] # from}

ConnectStep(c, from, to) ==
    [call |-> "connect", from |-> from, to |-> to, conns |-> Connect(c, from, to)]

DisconnectStep(c, from) ==
    [call |-> "disconnect", from |-> from, to |-> "*", conns |-> Disconnect(c, from)]

\* Connection set after a sequence of calls that started from c.
After(c, steps) == IF steps = <<>> THEN c ELSE steps[Len(steps)].conns

\* ---- Pure helpers of AudioTrack ----

\* Smallest position (1-based) at which p occurs in the collection.
FirstAt(p, tracks) ==
    CHOOSE i \in 1..Len(tracks) :
        tracks[i] = p /\ \A j \in 1..(i - 1) : tracks[j] # p

\* getIndex counting from 1 instead of 0.
getIndex_OneBased(p, tracks) ==
    IF Len(tracks) > 1
    THEN IF \E i \in 1..Len(tracks) : tracks[i] = p
         THEN FirstAt(p, tracks)
         ELSE 0
    ELSE 0

\* getIndex: 0 for a collection of at most one element; otherwise the
\* 0-based position of the element whose child has this component's id.
\* When no element matches, the warning after the loop reads the loop
\* variable `item` outside its block, which throws a ReferenceError that the
\* catch clause turns into 0.
getIndex(p, tracks) ==
    IF Len(tracks) > 1
    THEN IF \E i \in 1..Len(tracks) : tracks[i] = p
         THEN FirstAt(p, tracks) - 1
         ELSE 0
    ELSE 0

\* place = this._trackIdx + 1
Place(idx) == idx + 1

\* pos = place * (2 / (N + 1)) - 1, as the fraction PosNum / PosDen.
PosNum(idx, len) == 2 * Place(idx) - (len + 1)

PosDen(len) == len + 1

\* pos as the code computes it in IEEE double precision (angle = 2 / (N + 1),
\* pos = place * angle - 1): <<sign, a, b>> with |pos| = a * 10^-9 + b * 10^-18,
\* the exact value of the double cut after 18 decimals.  Row N + 1 for
\* N = 0..6, column place + 1 for place = 0..N + 1.
PosTable ==
    << <<<<-1, 1000000000, 0>>, <<1, 1000000000, 0>>>>,
       <<<<-1, 1000000000, 0>>, <<0, 0, 0>>, <<1, 1000000000, 0>>>>,
       <<<<-1, 1000000000, 0>>, <<-1, 333333333, 333333370>>, <<1, 333333333, 333333259>>, <<1, 1000000000, 0>>>>,
       <<<<-1, 1000000000, 0>>, <<-1, 500000000, 0>>, <<0, 0, 0>>, <<1, 500000000, 0>>, <<1, 1000000000, 0>>>>,
       <<<<-1, 1000000000, 0>>, <<-1, 599999999, 999999977>>, <<-1, 199999999, 999999955>>, <<1, 200000000, 177>>, <<1, 600000000, 88>>, <<1, 1000000000, 0>>>>,
       <<<<-1, 1000000000, 0>>, <<-1, 666666666, 666666740>>, <<-1, 333333333, 333333370>>, <<0, 0, 0>>, <<1, 333333333, 333333259>>, <<1, 666666666, 666666518>>, <<1, 1000000000, 0>>>>,
       <<<<-1, 1000000000, 0>>, <<-1, 714285714, 285714301>>, <<-1, 428571428, 571428603>>, <<-1, 142857142, 857142904>>, <<1, 142857142, 857142793>>, <<1, 428571428, 571428381>>, <<1, 714285714, 285714190>>, <<1, 1000000000, 0>>>> >>

\* calcLocation, "let pos": the double the code holds for (index, length).
calcPos(idx, len) ==
    IF len + 1 \in 1..Len(PosTable) /\ Place(idx) \in 0..(len + 1)
    THEN PosTable[len + 1][Place(idx) + 1]
    ELSE <<0, 999, 999>>

\* Math.sin(Math.PI * (pos/2)).toFixed(2) in hundredths, evaluated in IEEE
\* double precision along the code's path (angle = 2 / (N + 1), then
\* pos = place * angle - 1): row N + 1 for N = 0..6, column place + 1 for
\* place = 0..N + 1.
SinTable ==
    << <<-100, 100>>,
       <<-100, 0, 100>>,
       <<-100, -50, 50, 100>>,
       <<-100, -71, 0, 71, 100>>,
       <<-100, -81, -31, 31, 81, 100>>,
       <<-100, -87, -50, 0, 50, 87, 100>>,
       <<-100, -90, -62, -22, 22, 62, 90, 100>> >>

\* Math.cos(Math.PI * (pos/2)).toFixed(2) in hundredths, same layout.
CosTable ==
    << <<0, 0>>,
       <<0, 100, 0>>,
       <<0, 87, 87, 0>>,
       <<0, 71, 100, 71, 0>>,
       <<0, 59, 95, 95, 59, 0>>,
       <<0, 50, 87, 100, 87, 50, 0>>,
       <<0, 43, 78, 97, 97, 78, 43, 0>> >>

\* Marks a (place, N) pair outside the tabulated range.
OffTable == <<999, 999>>

\* calcLocation reading the tables at the index instead of place = index + 1.
calcLocation_ZeroBased(idx, len) ==
    IF len + 1 \in 1..Len(SinTable) /\ idx \in 0..(len + 1)
    THEN <<SinTable[len + 1][idx + 1], CosTable[len + 1][idx + 1]>>
    ELSE OffTable

\* calcLocation: [xPos, yPos] for the cached index and length.
calcLocation(idx, len) ==
    IF len + 1 \in 1..Len(SinTable) /\ Place(idx) \in 0..(len + 1)
    THEN <<SinTable[len + 1][Place(idx) + 1], CosTable[len + 1][Place(idx) + 1]>>
    ELSE OffTable

\* this._pannerNode.scale
PannerScale == 1

\* ---- Handlers' parts, as functions of the component's record g ----

\* setupSpatial, "finally, connect graph": the three connect calls.
setupSpatialSteps(c) ==
    LET s1 == ConnectStep(c, "source", "panner")
        s2 == ConnectStep(s1.conns, "panner", "gain")
        s3 == ConnectStep(s2.conns, "gain", "destination")
    IN  <<s1, s2, s3>>

\* setupSpatial: creates the gain and panner nodes, connects the graph and
\* copies the global flag.
setupSpatial(g, flag) ==
    [g EXCEPT !.gain = DefaultGain, !.px = 0, !.py = 0,
              !.conns = After(g.conns, setupSpatialSteps(g.conns)),
              !.spatial = flag]

\* updateSpatial that leaves the panner of a lone participant untouched.
updateSpatial_SkipSingle(g, modern) ==
    LET loc == calcLocation(g.idx, g.len)
    IN  IF g.len <= 1
        THEN g
        ELSE IF modern
             THEN [g EXCEPT !.px = loc[1] * PannerScale, !.py = loc[2] * PannerScale]
             ELSE [g EXCEPT !.px = loc[2] * PannerScale, !.py = 0]

\* updateSpatial: writes the computed location to the panner.  Without the
\* position AudioParams it calls setPosition(x, 0, 0) and then
\* setPosition(y, 0, 0), which leaves (y, 0, 0).
updateSpatial(g, modern) ==
    LET loc == calcLocation(g.idx, g.len)
    IN  IF modern
        THEN [g EXCEPT !.px = loc[1] * PannerScale, !.py = loc[2] * PannerScale]
        ELSE [g EXCEPT !.px = loc[2] * PannerScale, !.py = 0]

\* switchCondition without its leading this._source.disconnect().
switchConditionSteps_NoDisconnect(g) ==
    IF Truthy(g.spatial)
    THEN LET s2 == DisconnectStep(g.conns, "panner")
             s3 == ConnectStep(s2.conns, "source", "gain")
         IN  <<s2, s3>>
    ELSE LET s2 == ConnectStep(g.conns, "source", "panner")
             s3 == ConnectStep(s2.conns, "panner", "gain")
         IN  <<s2, s3>>

\* switchCondition making its connect calls before this._source.disconnect().
switchConditionSteps_ConnectFirst(g) ==
    IF Truthy(g.spatial)
    THEN LET s1 == DisconnectStep(g.conns, "panner")
             s2 == ConnectStep(s1.conns, "source", "gain")
             s3 == DisconnectStep(s2.conns, "source")
         IN  <<s1, s2, s3>>
    ELSE LET s1 == ConnectStep(g.conns, "source", "panner")
             s2 == ConnectStep(s1.conns, "panner", "gain")
             s3 == DisconnectStep(s2.conns, "source")
         IN  <<s1, s2, s3>>

\* switchCondition whose way back to spatial omits
\* this._pannerNode.connect(this._gainNode).
switchConditionSteps_HalfWired(g) ==
    LET s1 == DisconnectStep(g.conns, "source")
    IN  IF Truthy(g.spatial)
        THEN LET s2 == DisconnectStep(s1.conns, "panner")
                 s3 == ConnectStep(s2.conns, "source", "gain")
             IN  <<s1, s2, s3>>
        ELSE <<s1, ConnectStep(s1.conns, "source", "panner")>>

\* switchCondition: the disconnect and connect calls, by the local flag.
switchConditionSteps(g) ==
    LET s1 == DisconnectStep(g.conns, "source")
    IN  IF Truthy(g.spatial)
        THEN LET s2 == DisconnectStep(s1.conns, "panner")
                 s3 == ConnectStep(s2.conns, "source", "gain")
             IN  <<s1, s2, s3>>
        ELSE LET s2 == ConnectStep(s1.conns, "source", "panner")
                 s3 == ConnectStep(s2.conns, "panner", "gain")
             IN  <<s1, s2, s3>>

\* switchCondition that builds a new gain node, losing the volume.
switchCondition_NewGain(g) ==
    [g EXCEPT !.conns = After(g.conns, switchConditionSteps(g)),
              !.gain = DefaultGain]

\* switchCondition
switchCondition(g) ==
    [g EXCEPT !.conns = After(g.conns, switchConditionSteps(g))]

\* initContext creating a context on every call.
initContextCount_Always(n) == n + 1

\* initContext, first half: window.context is created only when absent.
initContextCount(n) == IF n > 0 THEN n ELSE n + 1

\* initContext, "new (window.AudioContext || window.webkitAudioContext)":
\* with neither constructor the operand is undefined and new throws a
\* TypeError; it is evaluated only while window.context is absent.
initContextThrows(n, api) == n = 0 /\ ~api

\* initContext, second half: an undefined flag becomes false.
initContextFlag(flag) == IF flag = "undefined" THEN "false" ELSE flag

\* componentDidMount, "if (typeof volume === 'number')".
mountVolume(g, volume) ==
    IF volume # Undefined THEN [g EXCEPT !.gain = volume] ELSE g

\* componentDidMount, "if (typeof muted === 'boolean')".
mountMuted(g, muted) ==
    IF muted # "undefined" THEN [g EXCEPT !.muted = Truthy(muted)] ELSE g

\* shouldComponentUpdate, volume: written when it is a number that differs.
updateVolume(g, nextVolume) ==
    IF nextVolume # Undefined /\ g.gain # nextVolume
    THEN [g EXCEPT !.gain = nextVolume]
    ELSE g

\* shouldComponentUpdate, muted: the test compares the boolean currentMuted
\* with nextVolume (a number or undefined) by !==, which is always true, so
\* a boolean nextMuted is always written.
updateMuted(g, nextMuted) ==
    IF nextMuted # "undefined" THEN [g EXCEPT !.muted = Truthy(nextMuted)] ELSE g

\* The switch run on every update pass, whether or not the flag changed.
updateSwitch_Always(g, flag) == [switchCondition(g) EXCEPT !.spatial = flag]

\* The switch without "this._spatialAudio = window.spatialAudio".
updateSwitch_KeepsCopy(g, flag) ==
    IF flag # g.spatial THEN switchCondition(g) ELSE g

\* shouldComponentUpdate, "If toggle was hit, switch".
updateSwitch(g, flag) ==
    IF flag # g.spatial
    THEN [switchCondition(g) EXCEPT !.spatial = flag]
    ELSE g

\* The Web Audio calls updateSwitch makes.
updateSwitchSteps(g, flag) ==
    IF flag # g.spatial THEN switchConditionSteps(g) ELSE <<>>

\* shouldComponentUpdate, "if (window.spatialAudio)": re-reads the index and
\* the length and repositions the panner when either changed.
updateIndex(g, p, flag, tracks, modern) ==
    IF Truthy(flag)
    THEN LET nextIndex == getIndex(p, tracks)
             nextLength == Len(tracks)
         IN  IF g.idx # nextIndex \/ g.len # nextLength
             THEN updateSpatial([g EXCEPT !.idx = nextIndex, !.len = nextLength],
                                modern)
             ELSE g
    ELSE g

\* The collection without the element of component p.
Without(tracks, p) == SelectSeq(tracks, LAMBDA q : q # p)

\* ---- Handlers ----

\* toggleSpatialAudio: spatialState = !window.spatialAudio.
toggleSpatialAudio(flag) == IF Truthy(flag) THEN "false" ELSE "true"

\* toggleSpatialAudio announcing the state the flag had before the toggle.
toggleAnnounced_Stale(flag) == IF Truthy(flag) THEN "enabled" ELSE "disabled"

\* toggleSpatialAudio, notificationProps.titleArguments.state.
toggleAnnounced(flag) ==
    IF Truthy(toggleSpatialAudio(flag)) THEN "enabled" ELSE "disabled"

\* toggleSpatialAudio, the spatialState of the action it returns.
toggleReturned(flag) == toggleSpatialAudio(flag)

\* componentDidMount, "if (stream.active)": the source node is made from the
\* captured stream when that is active; otherwise the element's volume is
\* set to 0 and the source node is made from the element itself.
mountSource(g, active) ==
    IF active
    THEN [g EXCEPT !.source = "stream"]
    ELSE [g EXCEPT !.refVolume = 0, !.source = "element"]

\* componentDidMount: the component's record once it returns.  tracks is
\* the collection with the new element in it, flag the global flag after
\* initContext.
componentDidMount(p, volume, muted, tracks, flag, modern, active) ==
    LET g0 == mountSource([NoGraph EXCEPT !.status = "live"], active)
        g1 == [g0 EXCEPT !.len = Len(tracks),
                         !.idx = getIndex(p, tracks)]
        g2 == setupSpatial(g1, flag)
        g3 == updateSpatial(g2, modern)
        g4 == mountVolume(g3, volume)
    IN  mountMuted(g4, muted)

\* this._source exists once componentDidMount has got past initContext.
hasSource(g) == g.status \in {"live", "detached"}

\* this._gainNode exists once setupSpatial has run.
hasGainNode(g) == g.status \in {"live", "detached"}

\* this._ref: React hands the <audio> element to _setRef before
\* componentDidMount, whether or not that callback then completes, and
\* hands it null once componentWillUnmount has run.
hasRef(g) == g.status \in {"live", "failed"}

\* Whether shouldComponentUpdate throws a TypeError: at
\* "this.props.audioTrack.participantId" when the audioTrack prop is null or
\* undefined, at "window.context.state" when no context was created, and at
\* "this._gainNode.gain.value" when the element is there but setupSpatial
\* never ran.
shouldComponentUpdateThrows(g, audioTrack, n) ==
    \/ ~audioTrack
    \/ n = 0
    \/ hasRef(g) /\ ~hasGainNode(g)

\* shouldComponentUpdate(nextProps): the component's record once it returns.
\* Everything it does is inside "if (this._ref)"; with the element but
\* without nodes it has thrown before changing anything.
shouldComponentUpdate(g, p, nextVolume, nextMuted, tracks, flag, modern) ==
    IF hasRef(g) /\ hasGainNode(g)
    THEN LET g1 == updateVolume(g, nextVolume)
             g2 == updateMuted(g1, nextMuted)
             g3 == updateSwitch(g2, flag)
         IN  updateIndex(g3, p, flag, tracks, modern)
    ELSE g

\* The Web Audio calls shouldComponentUpdate makes.
shouldComponentUpdateSteps(g, flag) ==
    IF hasRef(g) /\ hasGainNode(g) THEN updateSwitchSteps(g, flag) ELSE <<>>

\* componentWillUnmount: the Web Audio calls it makes.
componentWillUnmountSteps(g) == <<DisconnectStep(g.conns, "source")>>

\* componentWillUnmount calling this._source.disconnect(this._pannerNode),
\* which throws InvalidAccessError when there is no such connection.
componentWillUnmountThrows_Targeted(g) == <<"source", "panner">> \notin g.conns

\* _setRef(audioElement): the values it hands to onInitialVolumeSet, which it
\* calls only when the element and this._gainNode both exist.
setRef(g, audioElement) ==
    IF audioElement /\ hasGainNode(g) THEN <<g.gain>> ELSE <<>>

\* Whether componentWillUnmount throws: disconnect() without an argument
\* accepts a node that has no outgoing connection, but this._source is
\* undefined when componentDidMount never created it.
componentWillUnmountThrows(g) == ~hasSource(g)


\* componentWillUnmount: this._source.disconnect().
componentWillUnmount(g) ==
    [g EXCEPT !.conns = After(g.conns, componentWillUnmountSteps(g))]

\* ---- State machine ----

InitCommon ==
    /\ contexts = 0
    /\ spatialAudio = "undefined"
    /\ audioTracks = <<>>
    /\ graph = [p \in Participants |-> NoGraph]
    /\ last = [op |-> "init", p |-> 0, was |-> Was(NoGraph), volume |-> Undefined, muted |-> "undefined",
              threw |-> FALSE, steps |-> <<>>]

\* A browser with Web Audio and the panner's position AudioParams, in which
\* captured streams are active; startSilent is not configured, so Thumbnail
\* passes muted = Boolean(undefined).  The browsers without the AudioParams,
\* where updateSpatial takes its setPosition branch, are in InitProps.
Init ==
    /\ InitCommon
    /\ positionParams = TRUE
    /\ startSilent = "false"
    /\ webAudio = TRUE
    /\ streamActive = TRUE

\* Any browser, with or without Web Audio; startSilent configured or not
\* (Thumbnail passes muted = Boolean(startSilent)).
InitProps ==
    /\ InitCommon
    /\ positionParams \in BOOLEAN
    /\ startSilent \in MutedProps \ {"undefined"}
    /\ webAudio \in BOOLEAN
    /\ streamActive = TRUE

\* toggleSpatialAudio (the toolbar button dispatches it).
Toggle ==
    /\ spatialAudio' = toggleSpatialAudio(spatialAudio)
    /\ last' = [op |-> "toggle", p |-> 0, was |-> Was(NoGraph),
                volume |-> Undefined, muted |-> "undefined",
                threw |-> FALSE, steps |-> <<>>,
                announced |-> toggleAnnounced(spatialAudio),
                spatialState |-> toggleReturned(spatialAudio)]
    /\ UNCHANGED <<contexts, audioTracks, graph, positionParams, startSilent, webAudio, streamActive>>

\* React commits the Thumbnail's div.audio-track to the document and then
\* calls componentDidMount of the new AudioTrack.  Instances are numbered in
\* the order of their creation.  When initContext throws, the callback ends
\* there: the element is in the document and the component has no node.
\* React hands the <audio> element to _setRef before componentDidMount runs;
\* last.reported holds what _setRef passed to onInitialVolumeSet.
Mount(p, volume, muted) ==
    /\ graph[p].status = "none"
    /\ \A q \in 1..(p - 1) : graph[q].status # "none"
    /\ LET tracks == Append(audioTracks, p)
           flag == initContextFlag(spatialAudio)
       IN  IF initContextThrows(contexts, webAudio)
           THEN /\ audioTracks' = tracks
                /\ graph' = [graph EXCEPT ![p] = [NoGraph EXCEPT !.status = "failed"]]
                /\ last' = [op |-> "mount", p |-> p, was |-> Was(graph[p]),
                            volume |-> volume, muted |-> muted,
                            reported |-> setRef(graph[p], TRUE),
                            threw |-> TRUE, steps |-> <<>>]
                /\ UNCHANGED <<contexts, spatialAudio>>
           ELSE /\ audioTracks' = tracks
                /\ contexts' = initContextCount(contexts)
                /\ spatialAudio' = flag
                /\ graph' = [graph EXCEPT ![p] =
                      componentDidMount(p, volume, muted, tracks, flag, positionParams,
                                        streamActive)]
                /\ last' = [op |-> "mount", p |-> p, was |-> Was(graph[p]),
                            volume |-> volume, muted |-> muted,
                            reported |-> setRef(graph[p], TRUE),
                            threw |-> FALSE,
                            steps |-> setupSpatialSteps({})]
    /\ UNCHANGED <<positionParams, startSilent, webAudio, streamActive>>

\* An update pass that writes the new volume to every live graph.
Update_SharedGain(p, nextVolume, nextMuted) ==
    /\ graph[p].status = "live"
    /\ graph' = [q \in Participants |->
          IF q = p
          THEN shouldComponentUpdate(graph[p], p, nextVolume, nextMuted,
                                     audioTracks, spatialAudio, positionParams)
          ELSE IF graph[q].status = "live"
               THEN updateVolume(graph[q], nextVolume)
               ELSE graph[q]]
    /\ last' = [op |-> "update", p |-> p, was |-> Was(graph[p]), volume |-> nextVolume, muted |-> nextMuted,
                threw |-> shouldComponentUpdateThrows(graph[p], TRUE, contexts),
                steps |-> shouldComponentUpdateSteps(graph[p], spatialAudio)]
    /\ UNCHANGED <<contexts, spatialAudio, audioTracks, positionParams, startSilent, webAudio, streamActive>>

\* shouldComponentUpdate(nextProps): runs whenever the parent re-renders.
Update(p, nextVolume, nextMuted) ==
    /\ graph[p].status = "live"
    /\ graph' = [graph EXCEPT ![p] =
          shouldComponentUpdate(graph[p], p, nextVolume, nextMuted,
                                audioTracks, spatialAudio, positionParams)]
    /\ last' = [op |-> "update", p |-> p, was |-> Was(graph[p]), volume |-> nextVolume, muted |-> nextMuted,
                threw |-> shouldComponentUpdateThrows(graph[p], TRUE, contexts),
                steps |-> shouldComponentUpdateSteps(graph[p], spatialAudio)]
    /\ UNCHANGED <<contexts, spatialAudio, audioTracks, positionParams, startSilent, webAudio, streamActive>>

\* shouldComponentUpdate invoked on a component that was unmounted, with
\* its audioTrack prop present.  On a component whose componentDidMount
\* threw there is no window.context, and the pass throws at
\* "window.context.state".
LateUpdate(p, nextVolume, nextMuted) ==
    /\ graph[p].status \in {"detached", "unmounted"}
    /\ graph' = [graph EXCEPT ![p] =
          shouldComponentUpdate(graph[p], p, nextVolume, nextMuted,
                                audioTracks, spatialAudio, positionParams)]
    /\ last' = [op |-> "lateUpdate", p |-> p, was |-> Was(graph[p]),
                volume |-> nextVolume, muted |-> nextMuted,
                threw |-> shouldComponentUpdateThrows(graph[p], TRUE, contexts),
                steps |-> shouldComponentUpdateSteps(graph[p], spatialAudio)]
    /\ UNCHANGED <<contexts, spatialAudio, audioTracks, positionParams, startSilent, webAudio, streamActive>>

\* React calls componentWillUnmount, hands null to _setRef and then removes
\* the element.  This also happens to a component whose componentDidMount
\* threw (React unmounts the tree the error came from): it has no source
\* node, so the callback throws and nothing is disconnected; the component
\* is left unmounted, without nodes and without its element.
Unmount(p) ==
    /\ graph[p].status \in {"live", "failed"}
    /\ \E i \in 1..Len(audioTracks) : audioTracks[i] = p
    /\ graph' = [graph EXCEPT ![p] =
          IF componentWillUnmountThrows(graph[p])
          THEN [graph[p] EXCEPT !.status = "unmounted"]
          ELSE [componentWillUnmount(graph[p]) EXCEPT !.status = "detached"]]
    /\ audioTracks' = Without(audioTracks, p)
    /\ last' = [op |-> "unmount", p |-> p, was |-> Was(graph[p]),
                volume |-> Undefined, muted |-> "undefined",
                threw |-> componentWillUnmountThrows(graph[p]),
                steps |-> IF componentWillUnmountThrows(graph[p])
                          THEN <<>>
                          ELSE componentWillUnmountSteps(graph[p])]
    /\ UNCHANGED <<contexts, spatialAudio, positionParams, startSilent, webAudio, streamActive>>

\* componentWillUnmount invoked once more on a component that was
\* unmounted.  Without a source node it throws again, as the first call did.
UnmountAgain(p) ==
    /\ graph[p].status \in {"detached", "unmounted"}
    /\ graph' = [graph EXCEPT ![p] =
          IF componentWillUnmountThrows(graph[p])
          THEN graph[p]
          ELSE componentWillUnmount(graph[p])]
    /\ last' = [op |-> "unmountAgain", p |-> p, was |-> Was(graph[p]), volume |-> Undefined,
                muted |-> "undefined", threw |-> componentWillUnmountThrows(graph[p]),
                steps |-> IF componentWillUnmountThrows(graph[p])
                          THEN <<>>
                          ELSE componentWillUnmountSteps(graph[p])]
    /\ UNCHANGED <<contexts, spatialAudio, audioTracks, positionParams, startSilent, webAudio, streamActive>>

\* The parent passes no volume, or the one the gain node already has
\* (Thumbnail's state.volume starts at 1).
Next ==
    \/ Toggle
    \/ \E p \in Participants : Mount(p, Undefined, startSilent)
    \/ \E p \in Participants : Update(p, Undefined, startSilent)
    \/ \E p \in Participants : Unmount(p)
    \/ \E p \in Participants : UnmountAgain(p)

Spec == Init /\ [][Next]_vars

\* The parent passes any volume.
NextProps ==
    \/ Toggle
    \/ \E p \in PropParticipants, v \in VolumeProps : Mount(p, v, startSilent)
    \/ \E p \in PropParticipants, v \in VolumeProps : Update(p, v, startSilent)
    \/ \E p \in PropParticipants, v \in VolumeProps : LateUpdate(p, v, startSilent)
    \/ \E p \in PropParticipants : Unmount(p)
    \/ \E p \in PropParticipants : UnmountAgain(p)

SpecProps == InitProps /\ [][NextProps]_vars

\* ---- The element's volume and muted flag ----

\* A browser with Web Audio; the stream captured from the element is active
\* at the mount (the code's "Chrome!" branch) or not (its "Firefox!" branch).
InitMedia ==
    /\ InitCommon
    /\ positionParams = TRUE
    /\ startSilent \in MutedProps \ {"undefined"}
    /\ webAudio = TRUE
    /\ streamActive \in BOOLEAN

\* The parent passes any volume, and after the mount any muted flag.
NextMedia ==
    \/ Toggle
    \/ \E p \in PropParticipants, v \in VolumeProps : Mount(p, v, startSilent)
    \/ \E p \in PropParticipants, v \in VolumeProps, m \in MutedProps \ {"undefined"} :
          Update(p, v, m)
    \/ \E p \in PropParticipants : Unmount(p)
    \/ \E p \in PropParticipants : UnmountAgain(p)

SpecMedia == InitMedia /\ [][NextMedia]_vars

\* ---- calcLocation on its own ----

\* A component whose componentDidMount has run up to setupSpatial, holding
\* index i of a collection of n elements.
Fresh(i, n) ==
    setupSpatial([mountSource(NoGraph, TRUE) EXCEPT
                      !.status = "live", !.idx = i, !.len = n], "true")

\* Components 1 and 2 stand for any two of the n components of a collection;
\* each holds any index of it.
InitCalc ==
    /\ contexts = 1
    /\ spatialAudio = "true"
    /\ positionParams = TRUE
    /\ startSilent = "false"
    /\ webAudio = TRUE
    /\ streamActive = TRUE
    /\ last = [op |-> "init", p |-> 0, was |-> Was(NoGraph), volume |-> Undefined, muted |-> "undefined",
               threw |-> FALSE, steps |-> <<>>]
    /\ \E n \in 1..MaxCount :
          /\ audioTracks = [i \in 1..n |-> i]
          /\ \E i, j \in 0..(n - 1) :
                graph = [p \in Participants |->
                            IF p = 1 THEN Fresh(i, n)
                            ELSE IF p = 2 THEN Fresh(j, n) ELSE NoGraph]

\* updateSpatial: calcLocation applied to the cached index and length.
Locate(p) ==
    /\ graph[p].status = "live"
    /\ graph' = [graph EXCEPT ![p] = updateSpatial(graph[p], positionParams)]
    /\ last' = [op |-> "locate", p |-> p, was |-> Was(graph[p]), volume |-> Undefined, muted |-> "undefined",
                threw |-> FALSE, steps |-> <<>>]
    /\ UNCHANGED <<contexts, spatialAudio, audioTracks, positionParams, startSilent, webAudio, streamActive>>

NextCalc == \E p \in Participants : Locate(p)

SpecCalc == InitCalc /\ [][NextCalc]_vars

\* ---- Shapes of a graph's wiring ----

Live == {p \in Participants : graph[p].status = "live"}

Detached == {p \in Participants : graph[p].status = "detached"}

\* source -> panner -> gain, and no direct source -> gain.
WiredSpatial(c) ==
    /\ <<"source", "panner">> \in c
    /\ <<"panner", "gain">> \in c
    /\ <<"source", "gain">> \notin c

\* source -> gain directly, and not source -> panner.
WiredMono(c) ==
    /\ <<"source", "gain">> \in c
    /\ <<"source", "panner">> \notin c

\* The path the global flag selects.
WiredPerFlag(c, flag) == IF Truthy(flag) THEN WiredSpatial(c) ELSE WiredMono(c)

\* The source feeds the panner and the gain node at once.
BothPaths(c) == <<"source", "panner">> \in c /\ <<"source", "gain">> \in c

\* ---- C1 ----

\* C1: in every reachable state every live graph is wired as the global flag
\* selects: source -> panner -> gain when it is true, source -> gain when it
\* is false.  Violated: setupSpatial always wires through the panner.
C1_PathFollowsFlag ==
    \A p \in Live : WiredPerFlag(graph[p].conns, spatialAudio)

\* ---- C2 ----

\* C2: in no reachable state, and after no single Web Audio call of a
\* callback, is a graph's source connected to both its panner and its gain.
C2_NeverBothPaths ==
    /\ \A p \in Participants : ~BothPaths(graph[p].conns)
    /\ \A i \in 1..Len(last.steps) : ~BothPaths(last.steps[i].conns)

\* A rewire to mono has run: the source was disconnected from the panner it
\* fed and then connected to the gain node.
C2_Witness ==
    /\ last.op = "update"
    /\ Len(last.steps) = 3
    /\ last.steps[1].call = "disconnect"
    /\ last.steps[3] = ConnectStep(last.steps[2].conns, "source", "gain")
    /\ WiredMono(graph[last.p].conns)

\* ---- C3 ----

\* C3: when componentDidMount returns, the new graph is wired per the value
\* the flag has at that moment.  Violated on the first mount (flag false).
C3_AttachWiresPerFlag ==
    last.op = "mount" => WiredPerFlag(graph[last.p].conns, spatialAudio)

\* ---- C4 ----

\* C4: a detached graph has no connection left; in particular its gain node
\* is not connected to the destination.  Violated: only the source is
\* disconnected.
C4_DetachedHasNoConnection ==
    \A p \in Detached : graph[p].conns = {}

\* ---- C5 ----

\* C5: a second componentWillUnmount on a detached component throws nothing
\* and changes neither that graph nor any other state.
C5_DetachIdempotent ==
    [][(last'.op = "unmountAgain" /\ graph[last'.p].status = "detached")
         => /\ ~last'.threw
            /\ graph' = graph
            /\ audioTracks' = audioTracks
            /\ spatialAudio' = spatialAudio
            /\ contexts' = contexts]_vars

\* componentWillUnmount has run a second time on a detached graph while
\* another graph is live.
C5_Witness ==
    /\ last.op = "unmountAgain"
    /\ graph[last.p].status = "detached"
    /\ Live # {}
\* ---- C6 ----

\* The update pass of component p on record g with unchanged props.
UpdatePass(g, p, flag) ==
    shouldComponentUpdate(g, p, Undefined, "undefined", audioTracks, flag,
                          positionParams)

\* The record of p after toggle, update pass, toggle, update pass.
RoundTrip(p) ==
    LET f1 == toggleSpatialAudio(spatialAudio)
        g1 == UpdatePass(graph[p], p, f1)
        f2 == toggleSpatialAudio(f1)
    IN  UpdatePass(g1, p, f2)

\* C6: from any reachable state in which a live graph has seen the current
\* flag, two toggles, each followed by the graph's update pass, restore the
\* graph's exact connection set.  Violated for a graph mounted while the flag
\* was false and not rewired since.
C6_ModeRoundTrip ==
    \A p \in Live :
        graph[p].spatial = spatialAudio
            => RoundTrip(p).conns = graph[p].conns

\* ---- C7 ----

\* C7: a toggle, and an update pass that rewires and carries no new volume
\* or muted value, leave every graph's gain value and muted flag unchanged.
C7_RewireKeepsGainAndMute ==
    [][/\ last'.op = "toggle"
          => \A p \in Participants :
                /\ graph'[p].gain = graph[p].gain
                /\ graph'[p].muted = graph[p].muted
       /\ (/\ last'.op = "update"
           /\ last'.steps # <<>>
           /\ last'.volume \in {Undefined, graph[last'.p].gain}
           /\ last'.muted \in {"undefined",
                               IF graph[last'.p].muted THEN "true" ELSE "false"})
          => \A p \in Participants :
                /\ graph'[p].gain = graph[p].gain
                /\ graph'[p].muted = graph[p].muted]_vars

\* An update pass has rewired a graph whose volume is 0.5 and which is muted,
\* without passing a volume.
C7_Witness ==
    /\ last.op = "update"
    /\ last.steps # <<>>
    /\ last.volume = Undefined
    /\ graph[last.p].gain = 5
    /\ graph[last.p].muted

\* ---- C8 ----

\* The index, the length and the panner position a live graph has when they
\* are computed from the collection as it is now.
Current(p) ==
    /\ graph[p].idx = FirstAt(p, audioTracks) - 1
    /\ graph[p].len = Len(audioTracks)
    /\ <<graph[p].px, graph[p].py>> =
          calcLocation(FirstAt(p, audioTracks) - 1, Len(audioTracks))

\* C8: after a membership change (a mount or an unmount) every live graph
\* holds the index, the count and the position of the current collection.
\* Violated: only the mounted graph computes them.
C8_ChurnConsistency ==
    last.op \in {"mount", "unmount"} => \A p \in Live : Current(p)

\* ---- C9 ----

\* C9: the index held for each live graph is its current position in the
\* collection, and no two live graphs hold the same index.  Violated after
\* an unmount of an earlier element.
C9_RegistryInvariant ==
    /\ \A p \in Live : graph[p].idx = FirstAt(p, audioTracks) - 1
    /\ \A p, q \in Live : p # q => graph[p].idx # graph[q].idx

\* ---- C10 ----

\* C10: for the cached index and count of every graph, 1 <= place <= N, so
\* pos = place * (2 / (N + 1)) - 1 is strictly between -1 and 1, and the
\* panner holds the location computed from that pair.
C10_PosInsideOpenInterval ==
    \A p \in Participants :
        graph[p].status # "none"
            => /\ Place(graph[p].idx) >= 1
               /\ Place(graph[p].idx) <= graph[p].len
               /\ -PosDen(graph[p].len) < PosNum(graph[p].idx, graph[p].len)
               /\ PosNum(graph[p].idx, graph[p].len) < PosDen(graph[p].len)
               /\ graph[p].px = calcLocation(graph[p].idx, graph[p].len)[1] * PannerScale
               /\ graph[p].py = calcLocation(graph[p].idx, graph[p].len)[2] * PannerScale

\* After the first of three components was unmounted, an update pass has
\* moved the third to place 2 of 2 while the second still holds its count
\* of 3.
C10_Witness ==
    /\ last.op = "update"
    /\ last.p = 3
    /\ graph[1].status = "detached"
    /\ graph[2].status = "live"
    /\ graph[3].status = "live"
    /\ graph[3].idx = 1
    /\ graph[3].len = 2
    /\ graph[2].len = 3

\* ---- C11 ----

\* The double -u.
NegPos(u) == <<-u[1], u[2], u[3]>>

\* |u + v| in units of 10^-18, for doubles u and v of opposite sign.
PosGap(u, v) ==
    LET d == (u[2] - v[2]) * 1000000000 + (u[3] - v[3])
    IN  IF d < 0 THEN -d ELSE d

\* updateSpatial has positioned the panner of p (no computed location is
\* the origin).
Located(p) == graph[p].status # "none" /\ <<graph[p].px, graph[p].py>> # <<0, 0>>

\* Positioned graphs p and q hold the same count N and places k and N + 1 - k.
Mirrored(p, q) ==
    /\ Located(p)
    /\ Located(q)
    /\ graph[p].len = graph[q].len
    /\ Place(graph[p].idx) + Place(graph[q].idx) = graph[p].len + 1

\* C11 as stated: the pos values of two mirrored graphs are exact negatives
\* of each other.  Violated for N = 2: 1 * (2 / 3) - 1 and 2 * (2 / 3) - 1
\* are -0.33333333333333337 and 0.33333333333333326.
C11_ExactNegatives ==
    \A p, q \in Participants :
        Mirrored(p, q)
            => calcPos(graph[p].idx, graph[p].len)
                 = NegPos(calcPos(graph[q].idx, graph[q].len))

\* C11, amended: the pos values of two mirrored graphs have opposite signs
\* and magnitudes that differ by less than 10^-15; their panners hold
\* opposite x and equal y; and two graphs that hold the same index and count
\* hold the same position.
C11_MirroredPositions ==
    \A p, q \in Participants :
        /\ Mirrored(p, q)
              => LET u == calcPos(graph[p].idx, graph[p].len)
                     v == calcPos(graph[q].idx, graph[q].len)
                 IN  /\ u[1] = -v[1]
                     /\ PosGap(u, v) < 1000
                     /\ graph[p].px = -graph[q].px
                     /\ graph[p].py = graph[q].py
        /\ (/\ Located(p)
            /\ Located(q)
            /\ graph[p].idx = graph[q].idx
            /\ graph[p].len = graph[q].len)
              => /\ graph[p].px = graph[q].px
                 /\ graph[p].py = graph[q].py

\* updateSpatial has positioned two graphs at places 1 and 5 of 5, at
\* x = -0.87 and x = 0.87, y = 0.5.
C11_Witness ==
    /\ last.op = "locate"
    /\ graph[1].len = 5
    /\ graph[2].len = 5
    /\ graph[1].idx = 0
    /\ graph[2].idx = 4
    /\ graph[1].px = -87
    /\ graph[2].px = 87
    /\ graph[1].py = 50
    /\ graph[2].py = 50

\* ---- C12 ----

\* C12: a graph whose cached count is 1 holds index 0, so place 1 and
\* pos = 1 * (2 / 2) - 1 = 0, and its panner is at x = 0, y = 1, the value
\* the general formula gives; while live it stays connected through to the
\* destination with a non-zero gain.
C12_SingleParticipantAhead ==
    \A p \in Participants :
        (graph[p].status # "none" /\ graph[p].len = 1)
            => /\ graph[p].idx = 0
               /\ PosNum(graph[p].idx, graph[p].len) = 0
               /\ calcPos(graph[p].idx, graph[p].len) = <<0, 0, 0>>
               /\ <<graph[p].px, graph[p].py>> = <<0, 100>>
               /\ <<graph[p].px, graph[p].py>> = calcLocation(graph[p].idx, graph[p].len)
               /\ graph[p].status = "live"
                     => /\ <<"gain", "destination">> \in graph[p].conns
                        /\ \/ WiredSpatial(graph[p].conns)
                           \/ WiredMono(graph[p].conns)
                        /\ graph[p].gain > 0

\* After the first of two components left, the update pass of the second
\* has recomputed its place as 1 of 1 and moved its panner straight ahead.
C12_Witness ==
    /\ last.op = "update"
    /\ last.p = 2
    /\ graph[1].status = "detached"
    /\ graph[2].status = "live"
    /\ graph[2].len = 1
    /\ <<graph[2].px, graph[2].py>> = <<0, 100>>

\* ---- C13 ----

\* C13: a mount or an update pass of one component, whatever volume it
\* carries and whatever the flag, leaves the gain value of every other graph
\* unchanged; a volume it carries becomes the gain value of its own graph
\* (when the callback completes).
C13_VolumeIsolation ==
    [][last'.op \in {"mount", "update"}
         => /\ \A q \in Participants \ {last'.p} : graph'[q].gain = graph[q].gain
            /\ (last'.volume # Undefined /\ ~last'.threw)
                  => graph'[last'.p].gain = last'.volume]_vars

\* With the flag true, an update pass has lowered the volume of one live
\* graph from 1.0 to 0.5 while another live graph holds 1.0.
C13_Witness ==
    /\ last.op = "update"
    /\ last.volume = 5
    /\ last.was.gain = DefaultGain
    /\ graph[last.p].gain = 5
    /\ spatialAudio = "true"
    /\ \E q \in Live \ {last.p} : graph[q].gain = DefaultGain

\* ---- C14 ----

\* The source reaches the destination through the gain node.
Audible(c) ==
    /\ <<"gain", "destination">> \in c
    /\ \/ <<"source", "gain">> \in c
       \/ <<"source", "panner">> \in c /\ <<"panner", "gain">> \in c

\* What the source node emits, relative to the participant's media, in
\* tenths.  A MediaStreamAudioSourceNode emits the stream captured from the
\* element, which the element's volume and muted attributes do not touch; a
\* MediaElementAudioSourceNode emits the element's own output, on which both
\* act as they do without a graph.
SourceLevel(g) ==
    IF g.source = "element"
    THEN IF g.muted THEN 0 ELSE g.refVolume
    ELSE DefaultVolume

\* Squared distance, in hundredths squared, between the listener, which
\* setupSpatial puts at (0, 0, 1), and the panner at (px, py, 0).  It is at
\* least the squared refDistance, so the "inverse" distance model with
\* refDistance = 1 and rolloffFactor = 1 scales by 1 / distance; the cone
\* (coneInnerAngle = 360) scales by 1.
DistanceSq(g) == g.px * g.px + g.py * g.py + 100 * 100

\* The gain with which a graph delivers the participant's media to the
\* destination: (direct + panned / distance) / 100, distance being the square
\* root of distanceSq / 10000.  direct is what arrives over source -> gain,
\* panned what arrives over source -> panner -> gain before the panner's
\* distance gain (its HRTF filtering scales each ear and is left out).
OutputGain(g) ==
    LET level == IF <<"gain", "destination">> \in g.conns
                 THEN SourceLevel(g) * g.gain
                 ELSE 0
    IN  [direct |-> IF <<"source", "gain">> \in g.conns THEN level ELSE 0,
         panned |-> IF /\ <<"source", "panner">> \in g.conns
                       /\ <<"panner", "gain">> \in g.conns
                    THEN level
                    ELSE 0,
         distanceSq |-> DistanceSq(g)]

\* The graph delivers nothing.
Silent(g) == OutputGain(g).direct = 0 /\ OutputGain(g).panned = 0

\* C14: a muted live graph delivers its source with gain zero, and muting
\* followed by unmuting leaves the gain value the graph had.  Violated: the
\* gain value is indeed kept, but the muted flag goes to the <audio> element
\* only, and a graph fed from the captured stream is not silenced by it.
C14_MutedIsSilent ==
    \A p \in Live :
        /\ graph[p].muted => Silent(graph[p])
        /\ LET g1 == shouldComponentUpdate(graph[p], p, Undefined, "true",
                                          audioTracks, spatialAudio, positionParams)
               g2 == shouldComponentUpdate(g1, p, Undefined, "false",
                                          audioTracks, spatialAudio, positionParams)
           IN  g2.gain = graph[p].gain

\* ---- C15 ----

\* C15: the number of AudioContext instances created is 0 until the first
\* componentDidMount and 1 ever after, however many components are mounted
\* and unmounted.
C15_SingleContext ==
    /\ contexts <= 1
    /\ contexts = 1 <=> \E p \in Participants : graph[p].status # "none"

\* The third component was mounted after the first had been unmounted, and
\* there is still one context.
C15_Witness ==
    /\ last.op = "mount"
    /\ last.p = 3
    /\ graph[1].status = "detached"
    /\ graph[2].status = "live"
    /\ contexts = 1

\* ---- C16 ----

\* C16: where neither AudioContext nor webkitAudioContext exists,
\* componentDidMount does not throw.  Violated: initContext applies new to
\* undefined.
C16_UnsupportedDoesNotThrow ==
    (last.op = "mount" /\ ~webAudio) => ~last.threw

\* ---- C17 ----

\* Component p's element is not in the collection.
NotInRegistry(p, tracks) == \A i \in 1..Len(tracks) : tracks[i] # p

Departed(g) == g.status \in {"detached", "unmounted"}

\* C18: no step changes the record of a component on which
\* componentWillUnmount has been invoked, so none of its nodes is connected
\* again; a later update pass or componentWillUnmount of such a component
\* throws nothing and makes no connect call.  Violated where the component's
\* componentDidMount had thrown: the later calls throw as well.
C18_DetachedStaysUntouched ==
    [][/\ \A p \in Participants :
             Departed(graph[p]) => graph'[p] = graph[p]
       /\ (last'.op \in {"lateUpdate", "unmountAgain"}
             /\ Departed(graph[last'.p]))
             => /\ ~last'.threw
                /\ \A i \in 1..Len(last'.steps) : last'.steps[i].call # "connect"]_vars

\* ---- C19 ----

\* C19: a toggle happens only when every live graph has rewired for the
\* previous one, i.e. holds the flag's value as its local copy; right after
\* a toggle, then, no live graph's local copy equals the new flag.
\* Violated: toggleSpatialAudio flips the flag whenever it is dispatched.
C19_TogglesSerialized ==
    last.op = "toggle" => \A p \in Live : graph[p].spatial # spatialAudio

\* ---- C20 ----

\* C20: any two live graphs hold the same local copy of the flag and are
\* wired the same way (both through the panner or both source -> gain).
\* Violated: each graph rewires in its own update pass.
C20_OneConsistentMode ==
    \A p, q \in Live :
        /\ graph[p].spatial = graph[q].spatial
        /\ <<"source", "panner">> \in graph[p].conns
              <=> <<"source", "panner">> \in graph[q].conns

\* ---- C21 ----

\* C21: a toggle turns a true flag false and a false or undefined flag true,
\* announces 'enabled' exactly when the new flag is true and 'disabled'
\* otherwise, and returns the new flag as spatialState.
C21_ToggleFlipsAndAnnounces ==
    [][last'.op = "toggle"
         => /\ spatialAudio = "true" => spatialAudio' = "false"
            /\ spatialAudio \in {"false", "undefined"} => spatialAudio' = "true"
            /\ last'.announced = "enabled" <=> spatialAudio' = "true"
            /\ last'.announced = "disabled" <=> spatialAudio' = "false"
            /\ last'.spatialState = spatialAudio']_vars

\* With a live graph, a toggle has turned the flag back to false and
\* announced 'disabled'.
C21_Witness ==
    /\ last.op = "toggle"
    /\ spatialAudio = "false"
    /\ last.announced = "disabled"
    /\ last.spatialState = "false"
    /\ \E p \in Live : graph[p].spatial = "true"

\* ---- C22 ----

\* C22: while the flag is not true, a mount leaves the new panner at its
\* initial position (0, 0) and an update pass leaves the panner where it
\* is.  Violated by the mount: componentDidMount calls updateSpatial whatever
\* the flag.
C22_MonoWritesNoPosition ==
    ~Truthy(spatialAudio)
        => /\ (last.op = "mount" /\ ~last.threw)
                 => <<graph[last.p].px, graph[last.p].py>> = <<0, 0>>
           /\ \A p \in Live :
                 LET g == shouldComponentUpdate(graph[p], p, Undefined, "undefined",
                                                audioTracks, spatialAudio,
                                                positionParams)
                 IN  <<g.px, g.py>> = <<graph[p].px, graph[p].py>>

\* ---- C23 ----

\* C23: no callback throws: not the one that ran last, and not the update
\* pass of a live component whether its audioTrack prop is present or
\* absent.  Violated: componentDidMount throws without a Web Audio
\* constructor, componentWillUnmount throws when the source node was never
\* created, and the update pass throws when the audioTrack prop is absent.
C23_NothingThrows ==
    /\ ~last.threw
    /\ \A p \in Live, audioTrack \in BOOLEAN :
          ~shouldComponentUpdateThrows(graph[p], audioTrack, contexts)

\* ---- C24 ----

\* C24: when a mount completes, onInitialVolumeSet has been called exactly
\* once, with the gain value of the new graph's gain node as it was created.
\* Violated: _setRef runs before setupSpatial creates the gain node, and
\* calls nothing without one.
C24_InitialVolumeReported ==
    (last.op = "mount" /\ ~last.threw) => last.reported = <<DefaultGain>>

\* ---- C25 ----

\* The two connection sets a completed rewire may leave, each pair of nodes
\* connected once.
RewiredSets ==
    { {<<"source", "panner">>, <<"panner", "gain">>, <<"gain", "destination">>},
      {<<"source", "gain">>, <<"gain", "destination">>} }

\* C25: a rewire begins with the disconnect of the source; whenever it
\* connects the source, the source has no outgoing connection left; and it
\* ends in one of the two connection sets in which every pair of nodes is
\* connected once, also when the graph was already wired for the target.
C25_DisconnectBeforeConnect ==
    (last.op = "update" /\ last.steps # <<>>)
        => /\ last.steps[1].call = "disconnect"
           /\ last.steps[1].from = "source"
           /\ \A i \in 2..Len(last.steps) :
                 (last.steps[i].call = "connect" /\ last.steps[i].from = "source")
                     => \A e \in last.steps[i - 1].conns : e[1] # "source"
           /\ last.steps[Len(last.steps)].conns \in RewiredSets
           /\ graph[last.p].conns = last.steps[Len(last.steps)].conns

\* A rewire ran on a graph that was already wired through the panner and
\* had to go through the panner: it disconnected the source, connected it
\* to the panner again and called connect for the existing panner -> gain.
C25_Witness ==
    /\ last.op = "update"
    /\ Len(last.steps) = 3
    /\ last.steps[1] = DisconnectStep(last.steps[3].conns, "source")
    /\ last.steps[2] = ConnectStep(last.steps[1].conns, "source", "panner")
    /\ last.steps[3].call = "connect"
    /\ last.steps[3].from = "panner"
    /\ <<"panner", "gain">> \in last.steps[1].conns

\* ---- C26 ----

\* C26: with either panner API, once updateSpatial has run the panner's x is
\* xPos * scale and its y is yPos * scale for the location calcLocation
\* gives for the cached index and length.  Violated without the position
\* AudioParams: the second setPosition call overwrites x with yPos * scale
\* and leaves y at 0.
C26_BothCoordinatesSet ==
    \A p \in Participants :
        hasGainNode(graph[p])
            => /\ graph[p].px = calcLocation(graph[p].idx, graph[p].len)[1] * PannerScale
               /\ graph[p].py = calcLocation(graph[p].idx, graph[p].len)[2] * PannerScale

\* ---- C27 ----

\* C27: an update pass that finds its local copy different from the flag
\* (it processes a toggle) leaves the graph wired as the flag selects, with
\* the local copy equal to the flag; so does every update pass of a graph
\* that is wired as its local copy selects; and no step makes a live graph
\* that is wired as its local copy selects cease to be so.  Hence, from its
\* first processed toggle on, a graph matches the flag after each of its
\* update passes.
C27_UpdatePassMatchesFlag ==
    [][/\ (/\ last'.op = "update"
           /\ \/ last'.steps # <<>>
              \/ WiredPerFlag(graph[last'.p].conns, graph[last'.p].spatial))
             => /\ graph'[last'.p].spatial = spatialAudio'
                /\ WiredPerFlag(graph'[last'.p].conns, spatialAudio')
       /\ \A p \in Participants :
             (/\ graph[p].status = "live"
              /\ graph'[p].status = "live"
              /\ WiredPerFlag(graph[p].conns, graph[p].spatial))
                => WiredPerFlag(graph'[p].conns, graph'[p].spatial)]_vars

\* An update pass without a rewire has run on a graph that is wired
\* source -> gain (so it went to spatial and back before) while the flag is
\* false.
C27_Witness ==
    /\ last.op = "update"
    /\ last.steps = <<>>
    /\ spatialAudio = "false"
    /\ graph[last.p].spatial = "false"
    /\ WiredMono(graph[last.p].conns)

\* ---- C28 ----

\* The local copy of live graph p equals the flag f.
InStep(p, f) == graph[p].spatial = f

\* C28: an update pass leaves the graph's local copy equal to the flag, and
\* each toggle turns agreement of a live graph with the flag into
\* disagreement and back, so the graph agrees with the flag at its next pass
\* exactly when an even number of toggles came in between.  A pass of a
\* graph that agrees makes no Web Audio call and keeps the connection set;
\* a pass of a graph that disagrees runs switchCondition once: one
\* disconnect of the source, one connect of the source.
C28_EvenTogglesCancel ==
    [][/\ last'.op = "toggle"
          => \A p \in Live : InStep(p, spatialAudio) # InStep(p, spatialAudio')
       /\ last'.op = "update"
          => /\ graph'[last'.p].spatial = spatialAudio'
             /\ InStep(last'.p, spatialAudio)
                  => /\ last'.steps = <<>>
                     /\ graph'[last'.p].conns = graph[last'.p].conns
             /\ ~InStep(last'.p, spatialAudio)
                  => /\ Cardinality({i \in 1..Len(last'.steps) :
                                       /\ last'.steps[i].call = "disconnect"
                                       /\ last'.steps[i].from = "source"}) = 1
                     /\ Cardinality({i \in 1..Len(last'.steps) :
                                       /\ last'.steps[i].call = "connect"
                                       /\ last'.steps[i].from = "source"}) = 1
                     /\ graph'[last'.p].conns = last'.steps[Len(last'.steps)].conns]_vars

\* After an odd number of toggles a pass has rewired a graph that was wired
\* source -> gain (so it had been rewired before) back through the panner.
C28_Witness ==
    /\ last.op = "update"
    /\ Len(last.steps) = 3
    /\ last.steps[1].conns = {<<"gain", "destination">>}
    /\ last.steps[2] = ConnectStep(last.steps[1].conns, "source", "panner")
    /\ WiredSpatial(graph[last.p].conns)
    /\ spatialAudio = "true"

\* ---- C29 ----

\* C29: right after an update pass run while the flag is true, also one
\* that rewired the graph from mono to spatial, the graph's cached index and
\* length are its element's position in the collection and the collection's
\* size, and its panner holds the location computed from them.  Violated
\* without the position AudioParams: index and length are current, but
\* updateSpatial leaves the panner at (y, 0, 0).
C29_PassRecomputesPlace ==
    (last.op = "update" /\ Truthy(spatialAudio)) => Current(last.p)

\* ---- C30 ----

\* C30: every live graph, as mounted and after each rewire, has a path from
\* its source to the destination (source -> gain -> destination or
\* source -> panner -> gain -> destination), and gain -> destination is
\* present in every graph that has its nodes and after every single Web
\* Audio call of an update pass or an unmount.
C30_SourceReachesDestination ==
    /\ \A p \in Live : Audible(graph[p].conns)
    /\ \A p \in Participants :
          hasGainNode(graph[p]) => <<"gain", "destination">> \in graph[p].conns
    /\ last.op # "mount"
          => \A i \in 1..Len(last.steps) :
                <<"gain", "destination">> \in last.steps[i].conns

\* A toggle has happened while one live graph is wired source -> gain ->
\* destination and another source -> panner -> gain -> destination.
C30_Witness ==
    /\ last.op = "toggle"
    /\ \E p, q \in Live :
          /\ graph[p].conns = {<<"source", "gain">>, <<"gain", "destination">>}
          /\ graph[q].conns = {<<"source", "panner">>, <<"panner", "gain">>,
                               <<"gain", "destination">>}

====
